---- MODULE Spec2Model ----
(***************************************************************************)
(* Model of llm-engine/src/main.cpp: the "infer" entry point.  main scans  *)
(* its argument list for "--model <path>", prints the usage line and       *)
(* returns 1 when no non-empty path was found, and otherwise calls         *)
(* load_onnx_initializers once inside a try block.                         *)
(*                                                                         *)
(* load_onnx_initializers is only declared (loaders/onnx_loader.hpp); its  *)
(* body is not part of the sources, so a call is a nondeterministic choice *)
(* between returning a map, throwing a std::exception and throwing         *)
(* something that is not a std::exception.                                 *)
(***************************************************************************)
EXTENDS Integers, Sequences, FiniteSets, TLC

VARIABLES args, i, model_path, pc, exitStatus, loaderCalls, loaderArg,
          loaderOutcome, out, err

\* exitStatus is <<>> while main has not returned and <<s>> once it returned s;
\* loaderArg is the path handed to the loader; out and err are the lines
\* written to std::cout and std::cerr.
vars == <<args, i, model_path, pc, exitStatus, loaderCalls, loaderArg,
          loaderOutcome, out, err>>

\* Longest argument list (argc - 1) explored.
MaxArgs == 4

\* Argument tokens: the flag, an empty string, an unknown flag, plain values.
Tokens == {"--model", "", "--prompt", "a", "b"}

\* Keys the loader may return in its map.
InitNames == {"w", "bias"}

ArgLists == UNION {[1..n -> Tokens] : n \in 0..MaxArgs}

\* All orders in which the keys of a map can be iterated.
Orders(S) == {f \in [1..Cardinality(S) -> S] : \A x \in S : \E k \in DOMAIN f : f[k] = x}

UsageLine == <<"usage">>
LoadingLine(p) == <<"loading", p>>
LoadedLine(n) == <<"loaded", n>>
NameLine(s) == <<"name", s>>
ErrorLine == <<"error">>

----
\* main.cpp:11-12: model_path is empty, args holds argv[1..argc-1].
Init ==
    /\ args \in ArgLists
    /\ i = 0
    /\ model_path = ""
    /\ pc = "scan"
    /\ exitStatus = <<>>
    /\ loaderCalls = 0
    /\ loaderArg = ""
    /\ loaderOutcome = "none"
    /\ out = <<>>
    /\ err = <<>>

\* main.cpp:15: args[i] == "--model" && i + 1 < args.size()   (i is 0-based)
IsModelFlag(a, k) == a[k + 1] = "--model" /\ k + 1 < Len(a)

\* main.cpp:16: model_path = args[++i]; the value assigned.
TakeValueFirstWins(a, k, cur) == IF cur = "" THEN a[k + 2] ELSE cur
TakeValue(a, k, cur) == a[k + 2]

\* main.cpp:16 and the ++i of the loop header: the index after a recognised flag.
AfterFlagNoSkip(k) == k + 1
AfterFlag(k) == k + 2

\* main.cpp:14-17: one iteration on a recognised "--model".
ScanModel ==
    /\ pc = "scan"
    /\ i < Len(args)
    /\ IsModelFlag(args, i)
    /\ model_path' = TakeValue(args, i, model_path)
    /\ i' = AfterFlag(i)
    /\ UNCHANGED <<args, pc, exitStatus, loaderCalls, loaderArg, loaderOutcome, out, err>>

\* main.cpp:14-19: one iteration on any other token.
ScanOther ==
    /\ pc = "scan"
    /\ i < Len(args)
    /\ ~IsModelFlag(args, i)
    /\ i' = i + 1
    /\ UNCHANGED <<args, model_path, pc, exitStatus, loaderCalls, loaderArg, loaderOutcome, out, err>>

\* main.cpp:14: the loop condition fails.
ScanEnd ==
    /\ pc = "scan"
    /\ ~(i < Len(args))
    /\ pc' = "check"
    /\ UNCHANGED <<args, i, model_path, exitStatus, loaderCalls, loaderArg, loaderOutcome, out, err>>

\* main.cpp:21: model_path.empty()
PathMissing(p) == p = ""

\* main.cpp:21-24: no path: usage line, return 1.
CheckEmpty ==
    /\ pc = "check"
    /\ PathMissing(model_path)
    /\ out' = Append(out, UsageLine)
    /\ exitStatus' = <<1>>
    /\ pc' = "done"
    /\ UNCHANGED <<args, i, model_path, loaderCalls, loaderArg, loaderOutcome, err>>

\* main.cpp:21,26: a path was found: announce it and enter the try block.
CheckOk ==
    /\ pc = "check"
    /\ ~PathMissing(model_path)
    /\ out' = Append(out, LoadingLine(model_path))
    /\ pc' = "load"
    /\ UNCHANGED <<args, i, model_path, exitStatus, loaderCalls, loaderArg, loaderOutcome, err>>

\* main.cpp:36: what the catch block leaves as main's result: return 1.
CatchExitFallThrough == <<0>>
CatchExit == <<1>>

\* main.cpp:29-33,39: the loader returns a map; its size and keys are printed
\* in the map's iteration order; return 0.
LoadReturn ==
    /\ pc = "load"
    /\ \E names \in SUBSET InitNames : \E ord \in Orders(names) :
          out' = Append(out, LoadedLine(Cardinality(names)))
                    \o [k \in 1..Len(ord) |-> NameLine(ord[k])]
    /\ loaderCalls' = loaderCalls + 1
    /\ loaderArg' = model_path
    /\ loaderOutcome' = "returned"
    /\ exitStatus' = <<0>>
    /\ pc' = "done"
    /\ UNCHANGED <<args, i, model_path, err>>

\* main.cpp:29,34-37: the loader throws a std::exception; caught, return 1.
LoadThrow ==
    /\ pc = "load"
    /\ loaderCalls' = loaderCalls + 1
    /\ loaderArg' = model_path
    /\ loaderOutcome' = "threw"
    /\ err' = Append(err, ErrorLine)
    /\ exitStatus' = CatchExit
    /\ pc' = "done"
    /\ UNCHANGED <<args, i, model_path, out>>

\* main.cpp:29,34: the loader throws something the handler does not match;
\* the exception leaves main and the process is terminated.
LoadThrowOther ==
    /\ pc = "load"
    /\ loaderCalls' = loaderCalls + 1
    /\ loaderArg' = model_path
    /\ loaderOutcome' = "threw_other"
    /\ pc' = "terminated"
    /\ UNCHANGED <<args, i, model_path, exitStatus, out, err>>

Next ==
    \/ ScanModel
    \/ ScanOther
    \/ ScanEnd
    \/ CheckEmpty
    \/ CheckOk
    \/ LoadReturn
    \/ LoadThrow
    \/ LoadThrowOther

Spec == Init /\ [][Next]_vars

\* main is one sequential thread: an enabled step is eventually taken.
LiveSpec == Spec /\ WF_vars(Next)

----
TypeOK ==
    /\ args \in ArgLists
    /\ i \in 0..Len(args)
    /\ model_path \in Tokens
    /\ pc \in {"scan", "check", "load", "done", "terminated"}
    /\ exitStatus \in {<<>>, <<0>>, <<1>>}
    /\ loaderCalls \in 0..1
    /\ loaderOutcome \in {"none", "returned", "threw", "threw_other"}

\* main has stopped: it returned, or the process was terminated.
Stopped == pc \in {"done", "terminated"}

\* Position k (1-based) of a holds a "--model" the scan recognises: it has a
\* following token and is not itself the value of a recognised "--model".
RECURSIVE Recognised(_, _)
Recognised(a, k) ==
    /\ k \in 1..(Len(a) - 1)
    /\ a[k] = "--model"
    /\ ~(k > 1 /\ Recognised(a, k - 1))

RecognisedSet(a) == {k \in 1..Len(a) : Recognised(a, k)}

MaxOf(S) == CHOOSE m \in S : \A x \in S : x <= m

\* The value of the last recognised "--model", "" when there is none.
LastValue(a) == IF RecognisedSet(a) = {} THEN "" ELSE a[MaxOf(RecognisedSet(a)) + 1]

\* The list holds a "--model" token directly followed by a non-empty token.
HasModelWithValue(a) == \E k \in 1..(Len(a) - 1) : a[k] = "--model" /\ a[k + 1] # ""

NamesPrinted == {k \in DOMAIN out : out[k][1] = "name"}

----
\* C8 (as stated): main calls load_onnx_initializers iff the list contains a
\* "--model" token followed by a non-empty token; otherwise it prints the
\* usage line and returns 1 without calling the loader.
C8_AsStated ==
    /\ loaderCalls > 0 => HasModelWithValue(args)
    /\ Stopped /\ HasModelWithValue(args) => loaderCalls > 0
    /\ Stopped /\ ~HasModelWithValue(args) =>
          out = <<UsageLine>> /\ exitStatus = <<1>> /\ loaderCalls = 0

\* C8 (amended): main calls load_onnx_initializers iff the value of the last
\* "--model" the scan recognises is non-empty; otherwise (no recognised
\* "--model", or the last recognised one has an empty value) it prints the
\* usage line and returns 1 without calling the loader.
C8_LoaderIffLastValue ==
    /\ loaderCalls > 0 => LastValue(args) # ""
    /\ Stopped /\ LastValue(args) # "" => loaderCalls > 0
    /\ Stopped /\ LastValue(args) = "" =>
          out = <<UsageLine>> /\ exitStatus = <<1>> /\ loaderCalls = 0

\* A run that ended with the usage line although an earlier "--model" had a
\* non-empty value: the last recognised value was empty.
C8_Witness ==
    /\ pc = "done"
    /\ HasModelWithValue(args)
    /\ LastValue(args) = ""
    /\ RecognisedSet(args) # {}
    /\ out = <<UsageLine>>
    /\ exitStatus = <<1>>
    /\ loaderCalls = 0

\* C9: main returns 0 iff a model path was parsed and the loader returned
\* without throwing; when the loader throws a std::exception main returns 1
\* and prints no initializer names; the loader is called at most once.
C9_ExitStatus ==
    /\ exitStatus = <<0>> <=> (pc = "done" /\ model_path # "" /\ loaderOutcome = "returned")
    /\ loaderOutcome = "threw" => exitStatus = <<1>> /\ NamesPrinted = {}
    /\ loaderCalls <= 1

\* The loader was called and threw a std::exception, and main has returned.
C9_Witness ==
    /\ pc = "done"
    /\ loaderOutcome = "threw"
    /\ loaderCalls = 1
    /\ model_path # ""

\* One iteration of the scan at 0-based index i: a recognised "--model" takes
\* the next token as the path and steps over it, any other token changes
\* nothing but the index.
ScanStep ==
    pc = "scan" /\ i < Len(args) =>
        IF args[i + 1] = "--model" /\ i + 1 < Len(args)
        THEN i' = i + 2 /\ model_path' = args[i + 2] /\ pc' = "scan"
        ELSE i' = i + 1 /\ model_path' = model_path /\ pc' = "scan"

\* C10: the argument scan terminates; the token after a recognised "--model"
\* is consumed as its value and never examined as a flag ("--model --model"
\* gives the path "--model"); other tokens are ignored; with several
\* "--model" the path is the value of the last recognised one.
C10_Scan ==
    /\ <>(pc # "scan")
    /\ [][ScanStep]_vars
    /\ [](pc # "scan" => model_path = LastValue(args))
    /\ [](pc # "scan" /\ args = <<"--model", "--model">> => model_path = "--model")

\* The scan is over, it recognised "--model" more than once, and one of the
\* values it consumed was itself the token "--model".
C10_Witness ==
    /\ pc = "check"
    /\ Cardinality(RecognisedSet(args)) >= 2
    /\ \E k \in RecognisedSet(args) : args[k + 1] = "--model"
    /\ model_path = LastValue(args)

====
